---- MODULE Spec2Model ----
(***************************************************************************)
(* A model of jnf_geometry.h: 2D points, segments, axis-aligned rects and  *)
(* circles with the contains / overlaps / intersects predicate families,   *)
(* the closest-point query, the rect accessors and the bounding rect.      *)
(*                                                                         *)
(* The element type T is read as a floating-point type whose values are    *)
(* small integers.  Sums, differences and products of such values are      *)
(* exact; a quotient n/d is kept as the exact fraction and only compared   *)
(* (floating-point rounding is monotone and 0 and 1 are representable, so  *)
(* the comparisons of n/d with 0 and 1 agree with the exact ones).  A      *)
(* division by zero gives an infinity or a NaN, for which every comparison *)
(* the code makes is false.  Points computed from a quotient are kept as   *)
(* exact homogeneous triples [x, y, w] standing for (x/w, y/w); w = 0 is   *)
(* a NaN point.                                                            *)
(*                                                                         *)
(* The library holds no state: a state of the model is one call, made of   *)
(* the function called, its arguments and the value it returned.           *)
(***************************************************************************)
EXTENDS Integers, Sequences, FiniteSets, TLC

VARIABLES fn, args, ret

vars == <<fn, args, ret>>

\* ---------------------------------------------------------------- bounds
MaxCoord == 2
MaxSize == 2
MaxRadius == 2
MaxIndex == 6

\* eps = 1e-3, kept as its reciprocal
EpsInv == 1000

\* ------------------------------------------------------------ arithmetic
Abs(x) == IF x < 0 THEN -x ELSE x

Min(a, b) == IF b < a THEN b ELSE a

Max(a, b) == IF a < b THEN b ELSE a

\* std::clamp(v, lo, hi)
Clamp(v, lo, hi) == IF v < lo THEN lo ELSE IF hi < v THEN hi ELSE v

\* the C++ remainder i % n, which truncates towards zero
CRem(i, n) == IF i >= 0 THEN i % n ELSE -((-i) % n)

\* x < eps for an exact fraction n/d with d > 0
LessEps(n, d) == n * EpsInv < d

\* 0 <= n/d <= 1 as the floating-point comparison decides it
\* (d = 0 gives an infinity or a NaN: false)
InUnit(n, d) ==
    /\ d # 0
    /\ d > 0 => (0 <= n /\ n <= d)
    /\ d < 0 => (d <= n /\ n <= 0)

RECURSIVE Gcd(_, _)
Gcd(a, b) == IF b = 0 THEN a ELSE Gcd(b, a % b)

\* the point (x/w, y/w) in lowest terms with a positive denominator
Q(x, y, w) ==
    IF w = 0 THEN [x |-> 0, y |-> 0, w |-> 0]
    ELSE LET g == Gcd(Gcd(Abs(x), Abs(y)), Abs(w))
             s == IF w < 0 THEN -1 ELSE 1
         IN  [x |-> s * (x \div g), y |-> s * (y \div g), w |-> Abs(w) \div g]

\* ------------------------------------------------------------------ vec2
vec2(x, y) == [x |-> x, y |-> y]

sub(a, b) == vec2(a.x - b.x, a.y - b.y)

add(a, b) == vec2(a.x + b.x, a.y + b.y)

mag2(v) == v.x * v.x + v.y * v.y

dot(a, b) == a.x * b.x + a.y * b.y

cross(a, b) == a.x * b.y - a.y * b.x

\* ---------------------------------------------------------------- shapes
line(start, end) == [start |-> start, end |-> end]

vec(l) == sub(l.end, l.start)

length2(l) == mag2(sub(l.end, l.start))

rect(pos, size) == [pos |-> pos, size |-> size]

circle(center, radius) == [center |-> center, radius |-> radius]

top(r) == line(r.pos, vec2(r.pos.x + r.size.x, r.pos.y))

bottom(r) == line(vec2(r.pos.x, r.pos.y + r.size.y), add(r.pos, r.size))

left(r) == line(r.pos, vec2(r.pos.x, r.pos.y + r.size.y))

right(r) == line(vec2(r.pos.x + r.size.x, r.pos.y), add(r.pos, r.size))

side(r, i) ==
    CASE CRem(i, 4) = 0 -> top(r)
      [] CRem(i, 4) = 1 -> right(r)
      [] CRem(i, 4) = 2 -> bottom(r)
      [] CRem(i, 4) = 3 -> left(r)
      [] OTHER -> line(vec2(0, 0), vec2(0, 0))

area(r) == r.size.x * r.size.y

perim(r) == 1 * (r.size.x + r.size.y)

\* --------------------------------------------------------------- closest
closest_vec2_vec2(p1, p2) == Q(p1.x, p1.y, 1)

\* closest(line, vec2) with the projection left unclamped
closest_line_vec2_unclamped(l, p) ==
    LET d == vec(l)
        n == dot(d, sub(p, l.start))
        len2 == length2(l)
    IN  IF len2 = 0 THEN Q(0, 0, 0)
        ELSE Q(l.start.x * len2 + n * d.x, l.start.y * len2 + n * d.y, len2)

\* l.start + clamp(d.dot(p - l.start) / length2, 0, 1) * d; a zero-length
\* segment divides 0 by 0 and the NaN passes through std::clamp
closest_line_vec2(l, p) ==
    LET d == vec(l)
        n == dot(d, sub(p, l.start))
        len2 == length2(l)
        t == Clamp(n, 0, len2)
    IN  IF len2 = 0 THEN Q(0, 0, 0)
        ELSE Q(l.start.x * len2 + t * d.x, l.start.y * len2 + t * d.y, len2)

closest_rect_vec2(r, p) ==
    Q(Clamp(p.x, r.pos.x, r.pos.x + r.size.x),
      Clamp(p.y, r.pos.y, r.pos.y + r.size.y), 1)

\* ------------------------------------------------- predicates on a point
contains_vec2_vec2(p1, p2) == LessEps(mag2(sub(p1, p2)), 1)

\* |d| < eps, then u = l.vec().dot(p - l.start) / length2 within [0, 1]
contains_line_vec2(l, p) ==
    LET d == (p.x - l.start.x) * (l.end.y - l.start.y)
             - (p.y - l.start.y) * (l.end.x - l.start.x)
    IN  IF LessEps(Abs(d), 1)
        THEN InUnit(dot(vec(l), sub(p, l.start)), length2(l))
        ELSE FALSE

contains_rect_vec2(r, p) ==
    /\ p.x >= r.pos.x
    /\ p.y >= r.pos.y
    /\ p.x <= r.pos.x + r.size.x
    /\ p.y <= r.pos.y + r.size.y

\* contains(circle, vec2) with the boundary included
contains_circle_vec2_closed(c, p) ==
    mag2(sub(c.center, p)) <= c.radius * c.radius

\* the source reads the circle's centre as c.pos
contains_circle_vec2(c, p) ==
    mag2(sub(c.center, p)) < c.radius * c.radius

overlaps_vec2_vec2(p1, p2) == contains_vec2_vec2(p1, p2)

overlaps_line_vec2(l, p) == contains_line_vec2(l, p)

overlaps_rect_vec2(r, p) == contains_rect_vec2(r, p)

overlaps_circle_vec2(c, p) == contains_circle_vec2(c, p)

intersects_vec2_vec2(p1, p2) ==
    IF contains_vec2_vec2(p1, p2) THEN <<Q(p1.x, p1.y, 1)>> ELSE <<>>

intersects_line_vec2(l, p) ==
    IF contains_line_vec2(l, p) THEN <<Q(p.x, p.y, 1)>> ELSE <<>>

intersects_rect_vec2(r, p) ==
    IF \/ contains_line_vec2(top(r), p)
       \/ contains_line_vec2(bottom(r), p)
       \/ contains_line_vec2(left(r), p)
       \/ contains_line_vec2(right(r), p)
    THEN <<Q(p.x, p.y, 1)>> ELSE <<>>

intersects_circle_vec2(c, p) ==
    IF LessEps(Abs(mag2(sub(p, c.center)) - c.radius * c.radius), 1)
    THEN <<Q(p.x, p.y, 1)>> ELSE <<>>

\* ------------------------------------------------ predicates on a segment
contains_vec2_line(p, l) == FALSE

contains_line_line(l1, l2) == FALSE

contains_rect_line(r, l) ==
    contains_rect_vec2(r, l.start) /\ contains_rect_vec2(r, l.end)

contains_circle_line(c, l) ==
    contains_circle_vec2(c, l.start) /\ contains_circle_vec2(c, l.end)

overlaps_vec2_line(p, l) == contains_line_vec2(l, p)

overlaps_line_line(l1, l2) ==
    LET d == cross(vec(l2), vec(l1))
        n1 == cross(vec(l2), sub(l1.start, l2.start))
        n2 == cross(vec(l1), sub(l1.start, l2.start))
    IN  InUnit(n1, d) /\ InUnit(n2, d)

overlaps_rect_line(r, l) ==
    \/ overlaps_line_line(top(r), l)
    \/ overlaps_line_line(bottom(r), l)
    \/ overlaps_line_line(left(r), l)
    \/ overlaps_line_line(right(r), l)

\* (c.pos - closest(l, c.pos)).mag2() < radius^2; a NaN point compares false
overlaps_circle_line(c, l) ==
    LET q == closest_line_vec2(l, c.center)
    IN  /\ q.w # 0
        /\ (c.center.x * q.w - q.x) * (c.center.x * q.w - q.x)
           + (c.center.y * q.w - q.y) * (c.center.y * q.w - q.y)
           < c.radius * c.radius * q.w * q.w

intersects_vec2_line(p, l) == <<>>

\* rn and sn are products with 1/rd; the result is l1.start + rn * l1.vec()
intersects_line_line(l1, l2) ==
    LET rd == cross(vec(l1), vec(l2))
        rn == (l2.end.x - l2.start.x) * (l1.start.y - l2.start.y)
              - (l2.end.y - l2.start.y) * (l1.start.x - l2.start.x)
        sn == (l1.end.x - l1.start.x) * (l1.start.y - l2.start.y)
              - (l1.end.y - l2.start.y) * (l1.start.x - l2.start.x)
    IN  IF rd = 0 THEN <<>>
        ELSE IF ~InUnit(rn, rd) \/ ~InUnit(sn, rd) THEN <<>>
        ELSE <<Q(l1.start.x * rd + rn * (l1.end.x - l1.start.x),
                 l1.start.y * rd + rn * (l1.end.y - l1.start.y), rd)>>

RECURSIVE rect_line_loop(_, _, _)
rect_line_loop(r, l, i) ==
    IF i >= 4 THEN <<>>
    ELSE LET hit == intersects_line_line(side(r, i), l)
         IN  (IF hit # <<>> THEN <<hit[1]>> ELSE <<>>)
             \o rect_line_loop(r, l, i + 1)

intersects_rect_line(r, l) == rect_line_loop(r, l, 0)

intersects_circle_line(c, l) == <<>>

\* --------------------------------------------------- predicates on a rect
contains_vec2_rect(p, r) == FALSE

contains_line_rect(l, r) == FALSE

contains_rect_rect(r1, r2) ==
    /\ r2.pos.x >= r1.pos.x
    /\ r2.pos.y >= r1.pos.y
    /\ r2.pos.x + r2.size.x < r1.pos.x + r1.size.x
    /\ r2.pos.y + r2.size.y < r1.pos.y + r1.size.y

contains_circle_rect(c, r) ==
    /\ contains_circle_vec2(c, r.pos)
    /\ contains_circle_vec2(c, vec2(r.pos.x + r.size.x, r.pos.y))
    /\ contains_circle_vec2(c, vec2(r.pos.x, r.pos.y + r.size.y))
    /\ contains_circle_vec2(c, add(r.pos, r.size))

overlaps_vec2_rect(p, r) == overlaps_rect_vec2(r, p)

overlaps_line_rect(l, r) == overlaps_rect_line(r, l)

overlaps_rect_rect(r1, r2) ==
    /\ r1.pos.x < r2.pos.x + r2.size.x
    /\ r1.pos.x + r1.size.x >= r2.pos.x
    /\ r1.pos.y < r2.pos.y + r2.size.y
    /\ r1.pos.y + r1.size.y >= r2.pos.y

\* integer-valued coordinates never give the NaN the source guards against
overlaps_circle_rect(c, r) ==
    LET o == mag2(sub(vec2(Clamp(c.center.x, r.pos.x, r.pos.x + r.size.x),
                           Clamp(c.center.y, r.pos.y, r.pos.y + r.size.y)),
                      c.center))
    IN  o - (c.radius * c.radius) < 0

intersects_vec2_rect(p, r) == intersects_rect_vec2(r, p)

intersects_line_rect(l, r) == intersects_rect_line(r, l)

intersects_rect_rect(r1, r2) == <<>>

intersects_circle_rect(c, r) == <<>>

\* ------------------------------------------------- predicates on a circle
contains_vec2_circle(p, c) == FALSE

contains_line_circle(l, c) == FALSE

contains_rect_circle(r, c) == FALSE

contains_circle_circle(c1, c2) ==
    mag2(sub(c1.center, c2.center))
        <= (c1.radius - c2.radius) * (c1.radius - c2.radius)

overlaps_vec2_circle(p, c) == overlaps_circle_vec2(c, p)

overlaps_line_circle(l, c) == overlaps_circle_line(c, l)

overlaps_rect_circle(r, c) == overlaps_circle_rect(c, r)

overlaps_circle_circle(c1, c2) ==
    mag2(sub(c1.center, c2.center))
        <= (c1.radius + c2.radius) * (c1.radius + c2.radius)

intersects_vec2_circle(p, c) == <<>>

intersects_line_circle(l, c) == <<>>

intersects_rect_circle(r, c) == <<>>

intersects_circle_circle(c1, c2) == <<>>

\* -------------------------------------------------------------- envelope
envelope_r_vec2(p) == rect(p, vec2(0, 0))

envelope_r_line(l) ==
    rect(vec2(Min(l.start.x, l.end.x), Min(l.start.y, l.end.y)),
         vec2(Abs(l.start.x - l.end.x), Abs(l.start.y - l.end.y)))

envelope_r_rect(r) == r

envelope_r_circle(c) ==
    rect(sub(c.center, vec2(c.radius, c.radius)),
         vec2(c.radius * 2, c.radius * 2))

\* ---------------------------------------------------- overload resolution
\* An argument is a shape tagged with its type: [kind, v].
Kinds == {"vec2", "line", "rect", "circle"}

Is(a, k1, b, k2) == a.kind = k1 /\ b.kind = k2

closest(a, b) ==
    CASE Is(a, "vec2", b, "vec2") -> closest_vec2_vec2(a.v, b.v)
      [] Is(a, "line", b, "vec2") -> closest_line_vec2(a.v, b.v)
      [] Is(a, "rect", b, "vec2") -> closest_rect_vec2(a.v, b.v)

contains(a, b) ==
    CASE Is(a, "vec2", b, "vec2") -> contains_vec2_vec2(a.v, b.v)
      [] Is(a, "line", b, "vec2") -> contains_line_vec2(a.v, b.v)
      [] Is(a, "rect", b, "vec2") -> contains_rect_vec2(a.v, b.v)
      [] Is(a, "circle", b, "vec2") -> contains_circle_vec2(a.v, b.v)
      [] Is(a, "vec2", b, "line") -> contains_vec2_line(a.v, b.v)
      [] Is(a, "line", b, "line") -> contains_line_line(a.v, b.v)
      [] Is(a, "rect", b, "line") -> contains_rect_line(a.v, b.v)
      [] Is(a, "circle", b, "line") -> contains_circle_line(a.v, b.v)
      [] Is(a, "vec2", b, "rect") -> contains_vec2_rect(a.v, b.v)
      [] Is(a, "line", b, "rect") -> contains_line_rect(a.v, b.v)
      [] Is(a, "rect", b, "rect") -> contains_rect_rect(a.v, b.v)
      [] Is(a, "circle", b, "rect") -> contains_circle_rect(a.v, b.v)
      [] Is(a, "vec2", b, "circle") -> contains_vec2_circle(a.v, b.v)
      [] Is(a, "line", b, "circle") -> contains_line_circle(a.v, b.v)
      [] Is(a, "rect", b, "circle") -> contains_rect_circle(a.v, b.v)
      [] Is(a, "circle", b, "circle") -> contains_circle_circle(a.v, b.v)

overlaps(a, b) ==
    CASE Is(a, "vec2", b, "vec2") -> overlaps_vec2_vec2(a.v, b.v)
      [] Is(a, "line", b, "vec2") -> overlaps_line_vec2(a.v, b.v)
      [] Is(a, "rect", b, "vec2") -> overlaps_rect_vec2(a.v, b.v)
      [] Is(a, "circle", b, "vec2") -> overlaps_circle_vec2(a.v, b.v)
      [] Is(a, "vec2", b, "line") -> overlaps_vec2_line(a.v, b.v)
      [] Is(a, "line", b, "line") -> overlaps_line_line(a.v, b.v)
      [] Is(a, "rect", b, "line") -> overlaps_rect_line(a.v, b.v)
      [] Is(a, "circle", b, "line") -> overlaps_circle_line(a.v, b.v)
      [] Is(a, "vec2", b, "rect") -> overlaps_vec2_rect(a.v, b.v)
      [] Is(a, "line", b, "rect") -> overlaps_line_rect(a.v, b.v)
      [] Is(a, "rect", b, "rect") -> overlaps_rect_rect(a.v, b.v)
      [] Is(a, "circle", b, "rect") -> overlaps_circle_rect(a.v, b.v)
      [] Is(a, "vec2", b, "circle") -> overlaps_vec2_circle(a.v, b.v)
      [] Is(a, "line", b, "circle") -> overlaps_line_circle(a.v, b.v)
      [] Is(a, "rect", b, "circle") -> overlaps_rect_circle(a.v, b.v)
      [] Is(a, "circle", b, "circle") -> overlaps_circle_circle(a.v, b.v)

intersects(a, b) ==
    CASE Is(a, "vec2", b, "vec2") -> intersects_vec2_vec2(a.v, b.v)
      [] Is(a, "line", b, "vec2") -> intersects_line_vec2(a.v, b.v)
      [] Is(a, "rect", b, "vec2") -> intersects_rect_vec2(a.v, b.v)
      [] Is(a, "circle", b, "vec2") -> intersects_circle_vec2(a.v, b.v)
      [] Is(a, "vec2", b, "line") -> intersects_vec2_line(a.v, b.v)
      [] Is(a, "line", b, "line") -> intersects_line_line(a.v, b.v)
      [] Is(a, "rect", b, "line") -> intersects_rect_line(a.v, b.v)
      [] Is(a, "circle", b, "line") -> intersects_circle_line(a.v, b.v)
      [] Is(a, "vec2", b, "rect") -> intersects_vec2_rect(a.v, b.v)
      [] Is(a, "line", b, "rect") -> intersects_line_rect(a.v, b.v)
      [] Is(a, "rect", b, "rect") -> intersects_rect_rect(a.v, b.v)
      [] Is(a, "circle", b, "rect") -> intersects_circle_rect(a.v, b.v)
      [] Is(a, "vec2", b, "circle") -> intersects_vec2_circle(a.v, b.v)
      [] Is(a, "line", b, "circle") -> intersects_line_circle(a.v, b.v)
      [] Is(a, "rect", b, "circle") -> intersects_rect_circle(a.v, b.v)
      [] Is(a, "circle", b, "circle") -> intersects_circle_circle(a.v, b.v)

envelope_r(a) ==
    CASE a.kind = "vec2" -> envelope_r_vec2(a.v)
      [] a.kind = "line" -> envelope_r_line(a.v)
      [] a.kind = "rect" -> envelope_r_rect(a.v)
      [] a.kind = "circle" -> envelope_r_circle(a.v)

\* ------------------------------------------------------- argument values
Coords == 0..MaxCoord

Vec2s == [x : Coords, y : Coords]

Lines == [start : Vec2s, end : Vec2s]

Rects == [pos : Vec2s, size : [x : 0..MaxSize, y : 0..MaxSize]]

Circles == [center : Vec2s, radius : 0..MaxRadius]

Tag(k, S) == {[kind |-> k, v |-> s] : s \in S}

Points == Tag("vec2", Vec2s)

Shapes ==
    Points \cup Tag("line", Lines) \cup Tag("rect", Rects)
        \cup Tag("circle", Circles)

\* the shapes closest() is modelled for (the circle overload takes a square
\* root and is left out)
Targets == Points \cup Tag("line", Lines) \cup Tag("rect", Rects)

Indices == (0 - MaxIndex)..MaxIndex

\* ----------------------------------------------------------------- calls
\* a returned value is a record with one field, named after its type
Void == [void |-> TRUE]

Init ==
    /\ fn = "none"
    /\ args = <<>>
    /\ ret = Void

\* a call is made when no call is in progress
Idle == fn = "none"

Call(f, a, r) ==
    /\ fn' = f
    /\ args' = a
    /\ ret' = r

CallClosest ==
    /\ Idle
    /\ \E s \in Targets, p \in Points :
           Call("closest", <<s, p>>, [point |-> closest(s, p)])

CallContains ==
    /\ Idle
    /\ \E a \in Shapes, b \in Shapes :
           Call("contains", <<a, b>>, [bool |-> contains(a, b)])

CallOverlaps ==
    /\ Idle
    /\ \E a \in Shapes, b \in Shapes :
           Call("overlaps", <<a, b>>, [bool |-> overlaps(a, b)])

CallIntersects ==
    /\ Idle
    /\ \E a \in Shapes, b \in Shapes :
           Call("intersects", <<a, b>>, [points |-> intersects(a, b)])

CallSide ==
    /\ Idle
    /\ \E r \in Tag("rect", Rects), i \in Tag("int", Indices) :
           Call("side", <<r, i>>, [line |-> side(r.v, i.v)])

CallArea ==
    /\ Idle
    /\ \E r \in Tag("rect", Rects) : Call("area", <<r>>, [T |-> area(r.v)])

CallPerim ==
    /\ Idle
    /\ \E r \in Tag("rect", Rects) : Call("perim", <<r>>, [T |-> perim(r.v)])

CallEnvelopeR ==
    /\ Idle
    /\ \E s \in Shapes : Call("envelope_r", <<s>>, [rect |-> envelope_r(s)])

\* the caller takes the returned value
Return ==
    /\ fn # "none"
    /\ fn' = "none"
    /\ args' = <<>>
    /\ ret' = Void

Next ==
    \/ CallClosest
    \/ CallContains
    \/ CallOverlaps
    \/ CallIntersects
    \/ CallSide
    \/ CallArea
    \/ CallPerim
    \/ CallEnvelopeR
    \/ Return

Spec == Init /\ [][Next]_vars

\* Queries of a shape against a point only.
CallContainsPoint ==
    /\ Idle
    /\ \E s \in Shapes, p \in Points :
           Call("contains", <<s, p>>, [bool |-> contains(s, p)])

CallOverlapsPoint ==
    /\ Idle
    /\ \E s \in Shapes, p \in Points :
           Call("overlaps", <<s, p>>, [bool |-> overlaps(s, p)])

NextPoint ==
    \/ CallClosest
    \/ CallContainsPoint
    \/ CallOverlapsPoint
    \/ Return

SpecPoint == Init /\ [][NextPoint]_vars

\* ================================================================ claims
Range(q) == {q[i] : i \in DOMAIN q}

Called(f, k1, k2) ==
    /\ fn = f
    /\ args[1].kind = k1
    /\ args[2].kind = k2

\* C1: overlaps is symmetric: for every pair of shapes A and B the call
\* overlaps(A, B) returns what overlaps(B, A) returns.
C1_OverlapsSymmetric ==
    fn = "overlaps" => ret.bool = overlaps(args[2], args[1])

\* C2: containment implies overlap: whenever contains(A, B) returns true,
\* overlaps(A, B) is true as well.
C2_ContainsImpliesOverlaps ==
    (fn = "contains" /\ ret.bool) => overlaps(args[1], args[2])

\* The carrier lines of l1 and l2 cross at l1.start + t * l1.vec() =
\* l2.start + s * l2.vec() with t = tn/d and s = sn/d.
CrossDen(l1, l2) == cross(vec(l1), vec(l2))

CrossT(l1, l2) == cross(vec(l2), sub(l1.start, l2.start))

CrossS(l1, l2) == cross(vec(l1), sub(l1.start, l2.start))

SegmentsCross(l1, l2) ==
    /\ CrossDen(l1, l2) # 0
    /\ InUnit(CrossT(l1, l2), CrossDen(l1, l2))
    /\ InUnit(CrossS(l1, l2), CrossDen(l1, l2))

CrossingPoint(l1, l2) ==
    Q(l1.start.x * CrossDen(l1, l2) + CrossT(l1, l2) * vec(l1).x,
      l1.start.y * CrossDen(l1, l2) + CrossT(l1, l2) * vec(l1).y,
      CrossDen(l1, l2))

\* C3: overlaps(segment, segment) is true exactly when the segments are not
\* parallel and the crossing parameter lies in [0,1] on both of them, and
\* false when they are parallel.
C3_SegmentOverlapIsCrossing ==
    Called("overlaps", "line", "line")
        => ret.bool = SegmentsCross(args[1].v, args[2].v)

\* C4: intersects(segment, segment) returns exactly the crossing point when
\* the segments are not parallel and the crossing parameter lies in [0,1]
\* on both, and the empty set otherwise.
C4_SegmentIntersection ==
    Called("intersects", "line", "line")
        => ret.points = IF SegmentsCross(args[1].v, args[2].v)
                        THEN <<CrossingPoint(args[1].v, args[2].v)>>
                        ELSE <<>>

\* C5: the perimeter of a rect is 2 * (size.x + size.y).
C5_Perimeter ==
    fn = "perim" => ret.T = 2 * (args[1].v.size.x + args[1].v.size.y)

\* C6: contains(r1, r2) is true exactly when r1.pos <= r2.pos and
\* r2.pos + r2.size <= r1.pos + r1.size on both axes.
C6_RectContainsRectClosed ==
    Called("contains", "rect", "rect")
        => LET r1 == args[1].v
               r2 == args[2].v
           IN  ret.bool = (/\ r1.pos.x <= r2.pos.x
                           /\ r1.pos.y <= r2.pos.y
                           /\ r2.pos.x + r2.size.x <= r1.pos.x + r1.size.x
                           /\ r2.pos.y + r2.size.y <= r1.pos.y + r1.size.y)

\* C7: intersects is symmetric in argument order: intersects(A, B) returns
\* the same set of points as intersects(B, A).
C7_IntersectsSymmetric ==
    fn = "intersects" => Range(ret.points) = Range(intersects(args[2], args[1]))

\* i mod 4 as the mathematical remainder in 0..3
Edge(r, k) ==
    CASE k = 0 -> top(r)
      [] k = 1 -> right(r)
      [] k = 2 -> bottom(r)
      [] k = 3 -> left(r)

\* C9: for every index i, negative ones included, side(i) is the edge with
\* index i mod 4 in the order top, right, bottom, left, and so always one
\* of the rect's four edges.
C9_SideIsEdgeModFour ==
    fn = "side"
        => /\ ret.line = Edge(args[1].v, args[2].v % 4)
           /\ ret.line \in {Edge(args[1].v, k) : k \in 0..3}

\* The points of segment l at the parameters k / length2, k = 0..length2:
\* they include both endpoints, every point of l with integer coordinates
\* and the foot of the perpendicular from any point with integer
\* coordinates, when it falls on l.
SegmentPoints(l) ==
    {Q(l.start.x * length2(l) + k * vec(l).x,
       l.start.y * length2(l) + k * vec(l).y, length2(l)) :
        k \in 0..length2(l)}

\* The points of rect r with integer coordinates.
RectPoints(r) ==
    {Q(x, y, 1) : x \in r.pos.x..(r.pos.x + r.size.x),
                  y \in r.pos.y..(r.pos.y + r.size.y)}

\* the numerator of the squared distance from p to the point q, over q.w^2
Dist2Num(p, q) ==
    (q.x - p.x * q.w) * (q.x - p.x * q.w)
        + (q.y - p.y * q.w) * (q.y - p.y * q.w)

\* distance(p, a) <= distance(p, b)
NoFarther(p, a, b) ==
    Dist2Num(p, a) * b.w * b.w <= Dist2Num(p, b) * a.w * a.w

\* C8: closest(segment, p), for a segment of nonzero length, is
\* l.start + t * (l.end - l.start) with t the projection parameter clamped
\* to [0,1], and closest(rect, p) is the component-wise clamp of p into
\* [pos, pos + size]; the returned point lies on the shape and no point of
\* the shape is strictly nearer to p.
C8_ClosestOptimal ==
    /\ (Called("closest", "line", "vec2") /\ length2(args[1].v) # 0)
        => LET l == args[1].v
               p == args[2].v
               n == dot(vec(l), sub(p, l.start))
               t == IF n < 0 THEN 0
                    ELSE IF n > length2(l) THEN length2(l) ELSE n
           IN  /\ ret.point = Q(l.start.x * length2(l) + t * vec(l).x,
                                l.start.y * length2(l) + t * vec(l).y,
                                length2(l))
               /\ ret.point \in SegmentPoints(l)
               /\ \A q \in SegmentPoints(l) : NoFarther(p, ret.point, q)
    /\ Called("closest", "rect", "vec2")
        => LET r == args[1].v
               p == args[2].v
           IN  /\ ret.point = Q(Max(r.pos.x, Min(p.x, r.pos.x + r.size.x)),
                                Max(r.pos.y, Min(p.y, r.pos.y + r.size.y)),
                                1)
               /\ ret.point \in RectPoints(r)
               /\ \A q \in RectPoints(r) : NoFarther(p, ret.point, q)

\* a point projecting beyond the end of a segment was clamped to the end
C8_Witness ==
    /\ Called("closest", "line", "vec2")
    /\ length2(args[1].v) # 0
    /\ dot(vec(args[1].v), sub(args[2].v, args[1].v.start))
           > length2(args[1].v)
    /\ ret.point = Q(args[1].v.end.x, args[1].v.end.y, 1)

\* C10: contains(circle, p) is true exactly when the squared distance from
\* the centre to p is strictly less than the radius squared, so a point on
\* the boundary is not contained; overlaps(circle, p) gives the same answer.
C10_CircleContainsPointStrict ==
    (fn \in {"contains", "overlaps"} /\ args[1].kind = "circle"
        /\ args[2].kind = "vec2")
        => LET c == args[1].v
               p == args[2].v
               dx == c.center.x - p.x
               dy == c.center.y - p.y
           IN  ret.bool = (dx * dx + dy * dy < c.radius * c.radius)

\* the point (2,0) on the boundary of the circle of centre (0,0) and
\* radius 2 was found not to be contained
C10_Witness ==
    /\ Called("contains", "circle", "vec2")
    /\ args[1].v = circle(vec2(0, 0), 2)
    /\ args[2].v = vec2(2, 0)
    /\ ret.bool = FALSE

\* C11: the bounding rect encloses its shape as contains judges it: for a
\* point, a segment and a rect s, contains(envelope_r(s), s) is true; the
\* bounding rect of a segment has pos = the per-axis minimum of the
\* endpoints and size = the per-axis absolute difference, and the bounding
\* rect of a rect is the rect itself.
C11_EnvelopeContainsShape ==
    (fn = "envelope_r" /\ args[1].kind \in {"vec2", "line", "rect"})
        => /\ contains([kind |-> "rect", v |-> ret.rect], args[1])
           /\ args[1].kind = "line"
               => LET l == args[1].v
                  IN  ret.rect =
                          rect(vec2(Min(l.start.x, l.end.x),
                                    Min(l.start.y, l.end.y)),
                               vec2(Max(l.start.x, l.end.x)
                                        - Min(l.start.x, l.end.x),
                                    Max(l.start.y, l.end.y)
                                        - Min(l.start.y, l.end.y)))
           /\ args[1].kind = "rect" => ret.rect = args[1].v

====
